---- MODULE Spec2Model ----
(***************************************************************************)
(* Room session engine of quizyfi (src/main.py): the process-wide room     *)
(* store and the create / join / start / submit / state handlers.          *)
(*                                                                         *)
(* The handlers are plain `def` routes, which FastAPI runs on a thread     *)
(* pool without any lock.  submit and state are therefore modelled as      *)
(* step functions over the store and the handler's locals; the sequential  *)
(* specification Spec runs a handler's steps to completion in one action,  *)
(* the concurrent specification SpecConc interleaves the steps of several  *)
(* handlers.                                                               *)
(***************************************************************************)
EXTENDS Integers, Sequences, FiniteSets, TLC

VARIABLES rooms, now, thr

vars == <<rooms, now, thr>>

(* ------------------------ bounds and input sets ------------------------ *)

\* number of question windows the model lets time.time() run through
MaxWindows == 2

\* duration of a question window, seconds (create_room)
Duration == 30

\* time.time() is observed in whole seconds, so int(time.time() - t0) is the
\* difference of two observations: at 0, at half a window, and from then on
\* at every whole multiple of a window
NextTime(t) == IF t < Duration THEN t + Duration \div 2 ELSE t + Duration
MaxNow == MaxWindows * Duration

\* the codes random.choices yields in the model (a repeated draw collides),
\* and the codes a request can carry ("B" is never a room)
RoomCodes == {"A"}
Codes == {"A", "B"}
Names == {"Alice", "Bob"}
\* the `count` values a create_room request carries
Counts == {0, 1, 2}
\* the worker threads of the concurrent specification
Threads == {1, 2}

\* Python's None for a timestamp / for an answer
NoTime == -1
NoAnswer == "None"

\* the options a submit can carry: the correct one, a wrong one, or none
Right == "r"
Wrong == "w"
Choices == {Right, Wrong, NoAnswer}
\* the options the submits of a run carry; the claims range over Choices
Picks == {Right, Wrong}

(* --------------------------- quiz generator ----------------------------- *)

\* what generate_mcqs returns: `while len(quiz) < count` ends with exactly
\* count questions (none when count <= 0); question i has text i, and every
\* question has the correct option Right among its options
generate_mcqs(count) ==
    [i \in 1..(IF count > 0 THEN count ELSE 0) |->
        [q |-> i, answer |-> Right]]

(* ------------------------------ helpers --------------------------------- *)

RECURSIVE SumSeq(_)
SumSeq(s) == IF s = <<>> THEN 0 ELSE Head(s) + SumSeq(Tail(s))

InSeq(x, s) == \E i \in 1..Len(s) : s[i] = x

\* the student dict a join stores
NewStudent ==
    [score |-> 0, answered |-> FALSE, times |-> <<>>, answers |-> <<>>,
     q_start |-> NoTime]

\* the room dict create_room stores
NewRoom(count) ==
    [quiz |-> generate_mcqs(count),
     students |-> <<>>,
     names |-> <<>>,
     current |-> 0,
     started |-> FALSE,
     ended |-> FALSE,
     duration |-> Duration,
     start_time |-> NoTime]

\* r["quiz"][r["current"]] raises IndexError outside 0 .. len(quiz)-1
QuizInRange(r) == r.current >= 0 /\ r.current < Len(r.quiz)
QuizAt(r) == r.quiz[r.current + 1]

\* dict assignment students[name] = v: a new key goes last, an old key keeps its place
PutStudent(r, name, v) ==
    [r EXCEPT !.students = [n \in (DOMAIN r.students) \cup {name} |->
                               IF n = name THEN v ELSE r.students[n]],
              !.names = IF InSeq(name, r.names) THEN r.names
                        ELSE Append(r.names, name)]

PutRoom(rs, code, r) ==
    [c \in (DOMAIN rs) \cup {code} |-> IF c = code THEN r ELSE rs[c]]

(* ----------------------------- leaderboard ------------------------------ *)

\* one leaderboard entry; its "answers" is the student's own list object,
\* not a copy, and is read from the student record
Entry(r, name) ==
    [name |-> name,
     score |-> r.students[name].score,
     total_time |-> SumSeq(r.students[name].times)]

KeyLess_slowFirst(a, b) ==
    \/ a.score > b.score
    \/ a.score = b.score /\ a.total_time > b.total_time

\* key=lambda x: (-x["score"], x["total_time"])
KeyLess(a, b) ==
    \/ a.score > b.score
    \/ a.score = b.score /\ a.total_time < b.total_time

\* stable insertion of e into the sorted sequence s
RECURSIVE InsertSorted(_, _)
InsertSorted(e, s) ==
    IF s = <<>> THEN <<e>>
    ELSE IF KeyLess(e, Head(s)) THEN <<e>> \o s
    ELSE <<Head(s)>> \o InsertSorted(e, Tail(s))

RECURSIVE SortedFrom(_, _, _)
SortedFrom(r, i, acc) ==
    IF i > Len(r.names) THEN acc
    ELSE SortedFrom(r, i + 1, InsertSorted(Entry(r, r.names[i]), acc))

\* sorted([... for name, s in r["students"].items()], key=...)
leaderboard(r) == SortedFrom(r, 1, <<>>)

(* ------------------------- handler locals, results ---------------------- *)

\* the JSON body a handler returns; kind "fault" is an uncaught exception
Resp(kind) ==
    [kind |-> kind, room |-> "", students |-> <<>>, leaderboard |-> <<>>,
     question |-> 0, remaining |-> 0, qno |-> 0, total |-> 0]

NoResp == Resp("none")

\* the locals of one running handler
Locals(op, code, name, answer) ==
    [op |-> op, pc |-> "lookup", code |-> code, name |-> name,
     answer |-> answer, leaderboard |-> <<>>, remaining |-> 0, q |-> 0,
     elapsed |-> 0, i |-> 1, cur |-> 0, res |-> NoResp]

Idle == [Locals("idle", "", "", NoAnswer) EXCEPT !.pc = "done"]

Return(l, res) == [l EXCEPT !.pc = "done", !.res = res]
Goto(l, pc) == [l EXCEPT !.pc = pc]
Out(rs, l) == [rooms |-> rs, loc |-> l]

(* ------------------------------- submit --------------------------------- *)

AlreadyAnswered_never(s) == FALSE

\* if s["answered"]: return {"ok": True}
AlreadyAnswered(s) == s.answered

\* the answer record of lines 182-187
AnswerRecord(q, selected) ==
    [question |-> q.q, selected |-> selected, correct |-> q.answer,
     is_correct |-> (selected = q.answer)]

\* s["times"].append(elapsed)
AppendTime(s, elapsed) == [s EXCEPT !.times = Append(@, elapsed)]

\* s["answers"].append({...})
AppendAnswer(s, rec) == [s EXCEPT !.answers = Append(@, rec)]

\* negative marking: a wrong option costs a point
AddScore_penalty(s, q, selected) ==
    IF selected = q.answer THEN [s EXCEPT !.score = @ + 1]
    ELSE [s EXCEPT !.score = @ - 1]

\* if data.answer == q["answer"]: s["score"] += 1
AddScore(s, q, selected) ==
    IF selected = q.answer THEN [s EXCEPT !.score = @ + 1] ELSE s

MarkAnswered_not(s) == s

\* s["answered"] = True
MarkAnswered(s) == [s EXCEPT !.answered = TRUE]

SetStudent(rs, code, name, s) ==
    [rs EXCEPT ![code].students[name] = s]

\* one step of submit(data)
SubmitStep(rs, l, t) ==
    LET code == l.code
        name == l.name
    IN
    CASE l.pc = "lookup" ->
           IF code \notin DOMAIN rs THEN
               Out(rs, Return(l, Resp("error")))
           ELSE IF name \notin DOMAIN rs[code].students THEN
               Out(rs, Return(l, Resp("error")))
           ELSE IF AlreadyAnswered(rs[code].students[name]) THEN
               Out(rs, Return(l, Resp("ok")))
           ELSE Out(rs, Goto(l, "getq"))
      [] l.pc = "getq" ->
           IF ~QuizInRange(rs[code]) THEN Out(rs, Return(l, Resp("fault")))
           ELSE Out(rs, [Goto(l, "elapsed") EXCEPT !.q = QuizAt(rs[code])])
      [] l.pc = "elapsed" ->
           IF rs[code].students[name].q_start = NoTime THEN
               Out(rs, Return(l, Resp("fault")))
           ELSE Out(rs, [Goto(l, "times") EXCEPT
                            !.elapsed = t - rs[code].students[name].q_start])
      [] l.pc = "times" ->
           Out(SetStudent(rs, code, name,
                          AppendTime(rs[code].students[name], l.elapsed)),
               Goto(l, "answers"))
      [] l.pc = "answers" ->
           Out(SetStudent(rs, code, name,
                          AppendAnswer(rs[code].students[name],
                                       AnswerRecord(l.q, l.answer))),
               Goto(l, "score"))
      [] l.pc = "score" ->
           Out(SetStudent(rs, code, name,
                          AddScore(rs[code].students[name], l.q, l.answer)),
               Goto(l, "answered"))
      [] l.pc = "answered" ->
           Out(SetStudent(rs, code, name,
                          MarkAnswered(rs[code].students[name])),
               Return(l, Resp("ok")))

(* -------------------------------- state --------------------------------- *)

\* remaining = r["duration"] - int(time.time() - r["start_time"])
Remaining(r, t) == r.duration - (t - r.start_time)

\* if remaining <= 0:
Expired(remaining) == remaining <= 0

TimedOut_timeOnly(s, r, q) == [s EXCEPT !.times = Append(@, r.duration)]

\* the body of `if not s["answered"]`: the timeout entry of lines 228-234
TimedOut(s, r, q) ==
    [s EXCEPT !.times = Append(@, r.duration),
              !.answers = Append(@, AnswerRecord(q, NoAnswer))]

AdvanceStudent_everyone(s, r, q, t) ==
    [TimedOut(s, r, q) EXCEPT !.answered = FALSE, !.q_start = t]

\* one iteration of `for s in r["students"].values()`
AdvanceStudent(s, r, q, t) ==
    [(IF ~s.answered THEN TimedOut(s, r, q) ELSE s) EXCEPT
        !.answered = FALSE, !.q_start = t]

PastEnd_late(r) == r.current > Len(r.quiz)

\* if r["current"] >= len(r["quiz"]):
PastEnd(r) == r.current >= Len(r.quiz)

Restarted_drift(r, t) == [r EXCEPT !.start_time = @ + r.duration]

\* r["start_time"] = time.time()
Restarted(r, t) == [r EXCEPT !.start_time = t]

EndedResp(l) == [Resp("ended") EXCEPT !.leaderboard = l.leaderboard]

ActiveResp(r, l) ==
    [Resp("active") EXCEPT !.question = QuizAt(r).q,
                           !.remaining = l.remaining,
                           !.qno = r.current + 1,
                           !.total = Len(r.quiz),
                           !.leaderboard = l.leaderboard]

WaitingResp(r) == [Resp("waiting") EXCEPT !.students = r.names]

\* one step of state(room)
StateStep(rs, l, t) ==
    LET code == l.code
    IN
    CASE l.pc = "lookup" ->
           IF code \notin DOMAIN rs THEN Out(rs, Return(l, Resp("error")))
           ELSE Out(rs, Goto(l, "board"))
      [] l.pc = "board" ->
           Out(rs, [Goto(l, "flags") EXCEPT
                       !.leaderboard = leaderboard(rs[code])])
      [] l.pc = "flags" ->
           IF rs[code].ended THEN Out(rs, Return(l, EndedResp(l)))
           ELSE IF ~rs[code].started THEN
               Out(rs, Return(l, WaitingResp(rs[code])))
           ELSE Out(rs, Goto(l, "remaining"))
      [] l.pc = "remaining" ->
           LET rem == Remaining(rs[code], t)
           IN Out(rs, [Goto(l, IF Expired(rem) THEN "vacate" ELSE "final")
                          EXCEPT !.remaining = rem])
      [] l.pc = "vacate" ->
           IF ~QuizInRange(rs[code]) THEN Out(rs, Return(l, Resp("fault")))
           ELSE Out(rs, [Goto(l, "loop") EXCEPT !.q = QuizAt(rs[code]),
                                                !.i = 1])
      [] l.pc = "loop" ->
           IF l.i > Len(rs[code].names) THEN Out(rs, Goto(l, "load"))
           ELSE LET name == rs[code].names[l.i]
                IN Out(SetStudent(rs, code, name,
                                  AdvanceStudent(rs[code].students[name],
                                                 rs[code], l.q, t)),
                       [l EXCEPT !.i = @ + 1])
      [] l.pc = "load" ->
           Out(rs, [Goto(l, "store") EXCEPT !.cur = rs[code].current])
      [] l.pc = "store" ->
           Out([rs EXCEPT ![code].current = l.cur + 1], Goto(l, "endchk"))
      [] l.pc = "endchk" ->
           IF PastEnd(rs[code]) THEN
               Out([rs EXCEPT ![code].ended = TRUE], Return(l, EndedResp(l)))
           ELSE Out(rs, Goto(l, "restart"))
      [] l.pc = "restart" ->
           Out([rs EXCEPT ![code] = Restarted(rs[code], t)],
               [Goto(l, "final") EXCEPT !.remaining = rs[code].duration])
      [] l.pc = "final" ->
           IF ~QuizInRange(rs[code]) THEN Out(rs, Return(l, Resp("fault")))
           ELSE Out(rs, Return(l, ActiveResp(rs[code], l)))

Step(rs, l, t) ==
    IF l.op = "submit" THEN SubmitStep(rs, l, t) ELSE StateStep(rs, l, t)

\* a handler run from its first statement to its return, nothing interleaved
RECURSIVE Run(_, _, _)
Run(rs, l, t) ==
    IF l.pc = "done" THEN Out(rs, l)
    ELSE LET o == Step(rs, l, t) IN Run(o.rooms, o.loc, t)

\* a submit that moves on to the next question once everyone has answered
submit_advancing(rs, code, name, answer, t) ==
    LET o == Run(rs, Locals("submit", code, name, answer), t)
    IN IF /\ code \in DOMAIN o.rooms
          /\ o.loc.res.kind = "ok"
          /\ \A n \in DOMAIN o.rooms[code].students :
                o.rooms[code].students[n].answered
       THEN Out([o.rooms EXCEPT ![code].current = @ + 1], o.loc)
       ELSE o

submit(rs, code, name, answer, t) ==
    Run(rs, Locals("submit", code, name, answer), t)

state(rs, code, t) == Run(rs, Locals("state", code, "", NoAnswer), t)

(* ------------------------ create, join, start --------------------------- *)

\* rooms[code] = {...}; return {"room": code}
create_room(rs, code, count) ==
    Out(PutRoom(rs, code, NewRoom(count)),
        Return(Locals("create", code, "", NoAnswer),
               [Resp("room") EXCEPT !.room = code]))

join_room_anywhere(rs, code, name) ==
    LET base == IF code \in DOMAIN rs THEN rs[code] ELSE NewRoom(0)
    IN Out(PutRoom(rs, code, PutStudent(base, name, NewStudent)),
           Return(Locals("join", code, name, NoAnswer), Resp("ok")))

join_room(rs, code, name) ==
    LET l == Locals("join", code, name, NoAnswer)
    IN IF code \notin DOMAIN rs THEN Out(rs, Return(l, Resp("error")))
       ELSE Out([rs EXCEPT ![code] = PutStudent(rs[code], name, NewStudent)],
                Return(l, Resp("ok")))

\* for s in r["students"].values(): s["q_start"] = time.time()
StampStudents(r, t) ==
    [r EXCEPT !.students = [n \in DOMAIN r.students |->
                               [r.students[n] EXCEPT !.q_start = t]]]

start_quiz_rewind(rs, code, t) ==
    LET l == Locals("start", code, "", NoAnswer)
    IN IF code \notin DOMAIN rs THEN Out(rs, Return(l, Resp("error")))
       ELSE Out([rs EXCEPT ![code] =
                    StampStudents([rs[code] EXCEPT !.started = TRUE,
                                                   !.current = 0,
                                                   !.start_time = t], t)],
                Return(l, Resp("ok")))

start_quiz(rs, code, t) ==
    LET l == Locals("start", code, "", NoAnswer)
    IN IF code \notin DOMAIN rs THEN Out(rs, Return(l, Resp("error")))
       ELSE Out([rs EXCEPT ![code] =
                    StampStudents([rs[code] EXCEPT !.started = TRUE,
                                                   !.start_time = t], t)],
                Return(l, Resp("ok")))

(* ---------------------- sequential specification ------------------------ *)

\* no room yet, the clock at 0; the handlers run alone, on no worker thread
Init ==
    /\ rooms = <<>>
    /\ now = 0
    /\ thr = <<>>

\* a handler that runs alone: its store replaces the store
Finish(o) ==
    /\ rooms' = o.rooms
    /\ UNCHANGED <<now, thr>>

CreateRoom ==
    \E code \in RoomCodes, count \in Counts :
        Finish(create_room(rooms, code, count))

JoinRoom ==
    \E code \in Codes, name \in Names : Finish(join_room(rooms, code, name))

StartQuiz == \E code \in Codes : Finish(start_quiz(rooms, code, now))

Submit ==
    \E code \in Codes, name \in Names, answer \in Picks :
        Finish(submit(rooms, code, name, answer, now))

State == \E code \in Codes : Finish(state(rooms, code, now))

\* time.time() moves on between requests
Tick ==
    /\ NextTime(now) <= MaxNow
    /\ now' = NextTime(now)
    /\ UNCHANGED <<rooms, thr>>

Next == CreateRoom \/ JoinRoom \/ StartQuiz \/ Submit \/ State \/ Tick

Spec == Init /\ [][Next]_vars

(* ---------------------- concurrent specification ------------------------ *)

\* a room after create_room, the joins of `names`, start_quiz and the
\* submits of `early`, all at time 0
RECURSIVE JoinAll(_, _, _)
JoinAll(rs, code, names) ==
    IF names = <<>> THEN rs
    ELSE JoinAll(join_room(rs, code, Head(names)).rooms, code, Tail(names))

Started(count, names) ==
    start_quiz(JoinAll(create_room(<<>>, "A", count).rooms, "A", names),
               "A", 0).rooms

InitConc ==
    /\ now = 0
    /\ thr = [t \in Threads |-> Idle]
    /\ \E count \in Counts \ {0},
          names \in {<<"Alice", "Bob">>, <<"Bob", "Alice">>, <<"Alice">>},
          early \in {"", "Alice"} :
          rooms = IF early = "" THEN Started(count, names)
                  ELSE submit(Started(count, names), "A", early, Right, 0).rooms

\* a request reaches an idle worker thread; each thread serves one request
BeginSubmit(t) ==
    /\ thr[t].op = "idle"
    /\ \E name \in Names, answer \in Picks :
          thr' = [thr EXCEPT ![t] = Locals("submit", "A", name, answer)]
    /\ UNCHANGED <<rooms, now>>

BeginState(t) ==
    /\ thr[t].op = "idle"
    /\ thr' = [thr EXCEPT ![t] = Locals("state", "A", "", NoAnswer)]
    /\ UNCHANGED <<rooms, now>>

\* the thread runs its next statement
RunStep(t, op) ==
    /\ thr[t].op = op
    /\ thr[t].pc # "done"
    /\ LET o == Step(rooms, thr[t], now)
       IN /\ rooms' = o.rooms
          /\ thr' = [thr EXCEPT ![t] = o.loc]
    /\ UNCHANGED now

\* the concurrent runs cover the first window and the instant it expires;
\* a handler takes no time on the scale of the clock's steps, so time.time()
\* moves on only while no handler is in flight
TickConc ==
    /\ \A t \in Threads : thr[t].pc = "done"
    /\ NextTime(now) <= Duration
    /\ now' = NextTime(now)
    /\ UNCHANGED <<rooms, thr>>

SubmitRun(t) == RunStep(t, "submit")
StateRun(t) == RunStep(t, "state")

NextConc ==
    \/ \E t \in Threads : BeginSubmit(t)
    \/ \E t \in Threads : BeginState(t)
    \/ \E t \in Threads : SubmitRun(t)
    \/ \E t \in Threads : StateRun(t)
    \/ TickConc

SpecConc == InitConc /\ [][NextConc]_vars

(* ------------------------------- claims --------------------------------- *)

Members(c) == DOMAIN rooms[c].students
Active(r) == r.started /\ ~r.ended
\* the clock values at which a follow-up request can arrive
Later == {now, NextTime(now)}

\* C1: N simultaneous state calls on a room whose first window has just
\* expired advance it exactly once: while the clock still reads the expiry
\* instant, current is at most 1 and no student holds more than one record.
C1_OneAdvance ==
    (/\ now <= Duration
     /\ \A t \in Threads : thr[t].op \in {"idle", "state"})
    => \A c \in DOMAIN rooms :
          /\ rooms[c].current <= 1
          /\ \A n \in Members(c) :
                /\ Len(rooms[c].students[n].times) <= 1
                /\ Len(rooms[c].students[n].answers) <= 1

\* C2: in a started room a member's second submit, with any option and at
\* any later moment before an advance, changes nothing the first one left;
\* the first one adds at most one record and at most one point, and exactly
\* one record when the student had not answered and it succeeded.
C2_SubmitIdempotent ==
    \A c \in DOMAIN rooms :
       rooms[c].started =>
          \A n \in Members(c), a1 \in Choices, a2 \in Choices :
             LET s0 == rooms[c].students[n]
                 o1 == submit(rooms, c, n, a1, now)
                 s1 == o1.rooms[c].students[n]
             IN /\ Len(s1.answers) <= Len(s0.answers) + 1
                /\ Len(s1.times) <= Len(s0.times) + 1
                /\ s1.score <= s0.score + 1
                /\ (~s0.answered /\ o1.loc.res.kind = "ok")
                      => /\ Len(s1.answers) = Len(s0.answers) + 1
                         /\ s1.answered
                /\ \A t2 \in Later :
                      LET o2 == submit(o1.rooms, c, n, a2, t2)
                      IN /\ o2.rooms = o1.rooms
                         /\ o2.loc.res.kind = o1.loc.res.kind

\* a member of an active room has submitted: one record for the question
C2_Witness ==
    \E c \in DOMAIN rooms :
       /\ Active(rooms[c])
       /\ \E n \in Members(c) :
             /\ rooms[c].students[n].answered
             /\ rooms[c].students[n].score = 1
             /\ Len(rooms[c].students[n].answers) = rooms[c].current + 1

\* C3: for every room and every student, len(times) = len(answers) after
\* any sequence of create / join / start / submit / state requests.
C3_TimesMatchAnswers ==
    \A c \in DOMAIN rooms : \A n \in Members(c) :
       Len(rooms[c].students[n].times) = Len(rooms[c].students[n].answers)

\* a student holds a submitted record and a timeout record
C3_Witness ==
    \E c \in DOMAIN rooms : \E n \in Members(c) :
       LET s == rooms[c].students[n]
       IN /\ Len(s.times) = 2
          /\ \E i \in 1..2 : s.answers[i].selected = NoAnswer
                             /\ s.times[i] = rooms[c].duration
          /\ \E i \in 1..2 : s.answers[i].selected # NoAnswer

\* create_room stored a new room dict under c
Recreated(c) == \E count \in Counts : rooms'[c] = NewRoom(count)

\* C4: the current of a room never decreases, and no request changes it
\* once the room has ended (a create_room that draws the same code stores
\* another room).
C4_CurrentMonotone ==
    [][\A c \in DOMAIN rooms :
          \/ Recreated(c)
          \/ /\ rooms'[c].current >= rooms[c].current
             /\ rooms[c].ended => rooms'[c].current = rooms[c].current]_vars

\* an ended room that went through both of its questions has been restarted
C4_Witness ==
    \E c \in DOMAIN rooms :
       /\ rooms[c].ended
       /\ rooms[c].current = 2
       /\ rooms[c].start_time = now
       /\ now > 0

\* C5: a state call that advances a room gives every student who had not
\* answered one times entry equal to the duration and one answer record
\* with no selection and is_correct false, leaves the score alone, and
\* gives the students who had answered nothing.
C5_TimeoutFairness ==
    \A c \in DOMAIN rooms :
       LET r == rooms[c]
           r2 == state(rooms, c, now).rooms[c]
       IN r2.current # r.current =>
             \A n \in Members(c) :
                LET s == r.students[n]
                    s2 == r2.students[n]
                IN /\ s2.score = s.score
                   /\ IF ~s.answered
                      THEN /\ s2.times = Append(s.times, r.duration)
                           /\ s2.answers =
                                 Append(s.answers,
                                        [question |-> QuizAt(r).q,
                                         selected |-> NoAnswer,
                                         correct |-> QuizAt(r).answer,
                                         is_correct |-> FALSE])
                      ELSE /\ s2.times = s.times
                           /\ s2.answers = s.answers

\* an advance has passed over one student who had answered and one who had not
C5_Witness ==
    \E c \in DOMAIN rooms :
       /\ rooms[c].current >= 1
       /\ \E n \in Members(c), m \in Members(c) :
             /\ Len(rooms[c].students[n].answers) >= 1
             /\ rooms[c].students[n].answers[1].selected = NoAnswer
             /\ rooms[c].students[n].times[1] = rooms[c].duration
             /\ Len(rooms[c].students[m].answers) >= 1
             /\ rooms[c].students[m].answers[1].selected = Right
             /\ rooms[c].students[m].times[1] < rooms[c].duration

\* C6: a submit by a member of the room returns a result (never an uncaught
\* exception) in every reachable room state.
C6_SubmitNeverFaults ==
    \A c \in DOMAIN rooms : \A n \in Members(c), a \in Choices :
       submit(rooms, c, n, a, now).loc.res.kind # "fault"

\* C7: a started room with an empty quiz answers every inspection with the
\* ended snapshot.
C7_EmptyQuizEnds ==
    \A c \in DOMAIN rooms :
       (rooms[c].started /\ Len(rooms[c].quiz) = 0)
          => state(rooms, c, now).loc.res.kind = "ended"

\* C8: a join into a started room stamps the student's q_start with the
\* clock value of the join.
C8_LateJoinStamped ==
    \A c \in DOMAIN rooms :
       rooms[c].started =>
          \A n \in Names :
             join_room(rooms, c, n).rooms[c].students[n].q_start = now

\* C9: join, start, submit and state addressed to an unknown code, and a
\* submit by a name that is no member, return an error and leave the store
\* as it was.
C9_UnknownIsSoftError ==
    /\ \A code \in Codes \ DOMAIN rooms :
          /\ \A n \in Names :
                /\ join_room(rooms, code, n).rooms = rooms
                /\ join_room(rooms, code, n).loc.res.kind = "error"
                /\ \A a \in Choices :
                      /\ submit(rooms, code, n, a, now).rooms = rooms
                      /\ submit(rooms, code, n, a, now).loc.res.kind = "error"
          /\ start_quiz(rooms, code, now).rooms = rooms
          /\ start_quiz(rooms, code, now).loc.res.kind = "error"
          /\ state(rooms, code, now).rooms = rooms
          /\ state(rooms, code, now).loc.res.kind = "error"
    /\ \A c \in DOMAIN rooms : \A n \in Names \ Members(c), a \in Choices :
          /\ submit(rooms, c, n, a, now).rooms = rooms
          /\ submit(rooms, c, n, a, now).loc.res.kind = "error"

\* a started room with one member who has a record, one name that is no
\* member, and a code that is no room
C9_Witness ==
    /\ Codes \ DOMAIN rooms # {}
    /\ \E c \in DOMAIN rooms :
          /\ rooms[c].started
          /\ Names \ Members(c) # {}
          /\ \E n \in Members(c) : Len(rooms[c].students[n].times) = 1

\* C10: in a started room with n >= 1 questions every inspection that sees
\* an expired window adds one to current; it returns the active snapshot
\* of the next question while current stays below n, and sets ended and
\* returns the ended snapshot when current reaches n; ended is never set
\* before that.  With Alice at score 1 and Bob at score 0 the ended
\* leaderboard is Alice, Bob.
C10_EndsAtNthAdvance ==
    \A c \in DOMAIN rooms :
       LET r == rooms[c]
           n == Len(r.quiz)
           o == state(rooms, c, now)
           r2 == o.rooms[c]
           res == o.loc.res
       IN /\ (r.ended /\ n >= 1) => r.current = n
          /\ (n >= 1 /\ Active(r)) => r.current < n
          /\ (n >= 1 /\ Active(r) /\ Expired(Remaining(r, now))) =>
                /\ r2.current = r.current + 1
                /\ IF r.current + 1 < n
                   THEN /\ ~r2.ended
                        /\ res.kind = "active"
                        /\ res.qno = r.current + 2
                        /\ res.question = r.quiz[r.current + 2].q
                        /\ res.remaining = r.duration
                   ELSE /\ r2.ended
                        /\ res.kind = "ended"
          /\ (n >= 1 /\ Active(r) /\ ~Expired(Remaining(r, now))) =>
                /\ r2 = r
                /\ res.kind = "active"
                /\ res.qno = r.current + 1
          /\ (/\ res.kind = "ended"
              /\ DOMAIN r.students = {"Alice", "Bob"}
              /\ r.students["Alice"].score = 1
              /\ r.students["Bob"].score = 0)
             => /\ Len(res.leaderboard) = 2
                /\ res.leaderboard[1].name = "Alice"
                /\ res.leaderboard[1].score = 1
                /\ res.leaderboard[2].name = "Bob"
                /\ res.leaderboard[2].score = 0

\* the two-question room of the scenario has ended: Bob joined first, Alice
\* answered question 1 correctly, Bob never submitted
C10_Witness ==
    \E c \in DOMAIN rooms :
       /\ rooms[c].ended
       /\ Len(rooms[c].quiz) = 2
       /\ rooms[c].names = <<"Bob", "Alice">>
       /\ rooms[c].students["Alice"].score = 1
       /\ rooms[c].students["Alice"].answers[1].is_correct
       /\ rooms[c].students["Bob"].score = 0
       /\ \A i \in 1..2 : rooms[c].students["Bob"].answers[i].selected = NoAnswer

\* the place of a name in the insertion order of the students dict
Pos(seq, x) == CHOOSE i \in 1..Len(seq) : seq[i] = x

\* C11: the leaderboard an inspection returns lists every student of the
\* room exactly once with the student's score, ordered by score descending,
\* then total time ascending, then join order; when the inspection does not
\* advance, each total is the sum of the student's times.
C11_LeaderboardOrder ==
    \A c \in DOMAIN rooms :
       LET r == rooms[c]
           o == state(rooms, c, now)
           lb == o.loc.res.leaderboard
       IN o.loc.res.kind \in {"active", "ended"} =>
             /\ Len(lb) = Cardinality(Members(c))
             /\ {lb[i].name : i \in 1..Len(lb)} = Members(c)
             /\ \A i \in 1..Len(lb) :
                   /\ lb[i].score = r.students[lb[i].name].score
                   /\ o.rooms = rooms =>
                         lb[i].total_time = SumSeq(r.students[lb[i].name].times)
             /\ \A i \in 1..Len(lb), j \in 1..Len(lb) :
                   i < j =>
                      \/ lb[i].score > lb[j].score
                      \/ /\ lb[i].score = lb[j].score
                         /\ lb[i].total_time < lb[j].total_time
                      \/ /\ lb[i].score = lb[j].score
                         /\ lb[i].total_time = lb[j].total_time
                         /\ Pos(r.names, lb[i].name) < Pos(r.names, lb[j].name)

\* an active room whose second student equals the first in score and is
\* faster in total, and so has to be ranked ahead of the first
C11_Witness ==
    \E c \in DOMAIN rooms :
       /\ Active(rooms[c])
       /\ Len(rooms[c].names) = 2
       /\ LET a == rooms[c].students[rooms[c].names[1]]
              b == rooms[c].students[rooms[c].names[2]]
          IN /\ a.score = b.score
             /\ a.score >= 1
             /\ SumSeq(a.times) > SumSeq(b.times)

\* C12: a submit changes nothing of the room but the submitting student's
\* score, times, answers and answered: current, started, ended, start_time,
\* quiz and every other student's record stay, also when the submit makes
\* every student answered.
C12_SubmitFrame ==
    \A c \in DOMAIN rooms : \A n \in Members(c), a \in Choices :
       LET r == rooms[c]
           o == submit(rooms, c, n, a, now)
           r2 == o.rooms[c]
       IN /\ DOMAIN o.rooms = DOMAIN rooms
          /\ \A d \in DOMAIN rooms \ {c} : o.rooms[d] = rooms[d]
          /\ [r2 EXCEPT !.students = r.students] = r
          /\ DOMAIN r2.students = DOMAIN r.students
          /\ \A m \in Members(c) \ {n} : r2.students[m] = r.students[m]
          /\ r2.students[n].q_start = r.students[n].q_start

\* every student of an active two-student room has answered the first
\* question, and the room is still on it
C12_Witness ==
    \E c \in DOMAIN rooms :
       /\ Active(rooms[c])
       /\ rooms[c].current = 0
       /\ Cardinality(Members(c)) = 2
       /\ \A n \in Members(c) :
             /\ rooms[c].students[n].answered
             /\ Len(rooms[c].students[n].answers) = 1

\* C13: for every student name in every room the recorded score never
\* decreases across join (a repeated join with the same name included),
\* start, submit and state.
C13_ScoreNeverDecreases ==
    [][\A c \in DOMAIN rooms : \A n \in Members(c) :
          n \in DOMAIN rooms'[c].students =>
             rooms'[c].students[n].score >= rooms[c].students[n].score]_vars

\* C13, amended: the recorded score of a name never decreases across start,
\* submit, state and the joins of other names; a repeated join with the
\* same name stores a new record, whose score is 0.
C13_ScoreMonotoneUntilRejoin ==
    [][\A c \in DOMAIN rooms : \A n \in Members(c) :
          n \in DOMAIN rooms'[c].students =>
             \/ rooms'[c].students[n].score >= rooms[c].students[n].score
             \/ rooms'[c].students[n] = NewStudent]_vars

\* one student has scored on both questions, the other holds the record of
\* a join made after the first advance
C13_Witness ==
    \E c \in DOMAIN rooms :
       /\ rooms[c].current >= 1
       /\ \E n \in Members(c), m \in Members(c) :
             /\ rooms[c].students[n].score = 2
             /\ rooms[c].students[m] = NewStudent

\* C14: concurrent submits of one participant for the active question append
\* one times entry and one answer record and add at most one point: while
\* only submits run, no student holds more than the record of question 1.
C14_OneRecordPerQuestion ==
    (\A t \in Threads : thr[t].op \in {"idle", "submit"})
    => \A c \in DOMAIN rooms : \A n \in Members(c) :
          /\ Len(rooms[c].students[n].times) <= 1
          /\ Len(rooms[c].students[n].answers) <= 1
          /\ rooms[c].students[n].score <= 1

\* C15: create_room never replaces or modifies a room of the store: every
\* room the store holds is the same after any create_room.
C15_CreateKeepsRooms ==
    \A code \in RoomCodes, count \in Counts :
       \A c \in DOMAIN rooms :
          create_room(rooms, code, count).rooms[c] = rooms[c]

\* no question occurs twice in the answers of a student
OneRecordEach(s) ==
    \A i \in 1..Len(s.answers), j \in 1..Len(s.answers) :
       i # j => s.answers[i].question # s.answers[j].question

\* C16: when one submit runs beside one inspection, no student ends up with
\* two records for one question, and answered is set only for a student who
\* holds a record of the question the room is on.
C16_AdvanceAtomic ==
    (thr[1].op \in {"idle", "submit"} /\ thr[2].op \in {"idle", "state"})
    => \A c \in DOMAIN rooms : \A n \in Members(c) :
          /\ OneRecordEach(rooms[c].students[n])
          /\ rooms[c].students[n].answered
             => \E i \in 1..Len(rooms[c].students[n].answers) :
                   rooms[c].students[n].answers[i].question
                      = rooms[c].current + 1

\* C17: one inspection performs one advance however many windows have
\* elapsed: in a started room with a question, when now - start_time is the
\* duration or a multiple of it, a state call adds exactly 1 to current,
\* gives each student at most one more times entry and answer record, and,
\* when a next question exists, sets start_time to now and returns the full
\* duration as remaining.
C17_SingleAdvance ==
    \A c \in DOMAIN rooms :
       LET r == rooms[c]
           o == state(rooms, c, now)
           r2 == o.rooms[c]
       IN (/\ Active(r)
           /\ Len(r.quiz) >= 1
           /\ \E k \in 1..MaxWindows : now - r.start_time = k * r.duration)
          => /\ r2.current = r.current + 1
             /\ \A n \in Members(c) :
                   /\ Len(r2.students[n].times)
                         <= Len(r.students[n].times) + 1
                   /\ Len(r2.students[n].answers)
                         <= Len(r.students[n].answers) + 1
             /\ ~r2.ended => /\ r2.start_time = now
                             /\ o.loc.res.remaining = r.duration
                             /\ Remaining(r2, now) = r.duration

\* two windows have elapsed on the first of two questions with no inspection,
\* and a student has not answered
C17_Witness ==
    \E c \in DOMAIN rooms :
       /\ Active(rooms[c])
       /\ Len(rooms[c].quiz) = 2
       /\ rooms[c].current = 0
       /\ now - rooms[c].start_time = 2 * rooms[c].duration
       /\ \E n \in Members(c) : ~rooms[c].students[n].answered

\* C18: for every student of every room, len(times) <= current while
\* answered is false and len(times) <= current + 1 while answered is true;
\* and after a state call that advanced the room answered is false for
\* every student.
C18_EntriesBounded ==
    \A c \in DOMAIN rooms :
       LET r == rooms[c]
           r2 == state(rooms, c, now).rooms[c]
       IN /\ \A n \in Members(c) :
                Len(r.students[n].times)
                   <= r.current + (IF r.students[n].answered THEN 1 ELSE 0)
          /\ r2.current # r.current =>
                \A n \in Members(c) : ~r2.students[n].answered

\* after an advance both bounds are met with equality: one student answered
\* every question reached, the other has one entry per question vacated
C18_Witness ==
    \E c \in DOMAIN rooms :
       /\ Active(rooms[c])
       /\ rooms[c].current >= 1
       /\ \E n \in Members(c), m \in Members(c) :
             /\ rooms[c].students[n].answered
             /\ Len(rooms[c].students[n].times) = rooms[c].current + 1
             /\ ~rooms[c].students[m].answered
             /\ Len(rooms[c].students[m].times) = rooms[c].current

\* C19: the leaderboard returned by a state call that advanced the room is
\* the leaderboard of the student records after that advance: it equals the
\* leaderboard computed from the room the call leaves behind, so each
\* total_time counts the timeout entries the advance appended.
C19_BoardAfterAdvance ==
    \A c \in DOMAIN rooms :
       LET o == state(rooms, c, now)
       IN o.rooms[c].current # rooms[c].current =>
             /\ o.loc.res.leaderboard = leaderboard(o.rooms[c])
             /\ \A i \in 1..Len(o.loc.res.leaderboard) :
                   o.loc.res.leaderboard[i].total_time =
                      SumSeq(o.rooms[c].students[
                                o.loc.res.leaderboard[i].name].times)

\* C20: a submit that arrives when the window of the active question has
\* expired (now - start_time >= duration) and no inspection has advanced
\* the room adds no point and no record, and every times entry of every
\* student lies between 0 and the duration of the room.
C20_AnswerableInWindow ==
    \A c \in DOMAIN rooms :
       LET r == rooms[c]
       IN /\ \A n \in Members(c) :
                \A i \in 1..Len(r.students[n].times) :
                   r.students[n].times[i] \in 0..r.duration
          /\ (Active(r) /\ QuizInRange(r) /\ Expired(Remaining(r, now))) =>
                \A n \in Members(c), a \in Picks :
                   LET s2 == submit(rooms, c, n, a, now).rooms[c].students[n]
                   IN /\ s2.score = r.students[n].score
                      /\ s2.answers = r.students[n].answers

====
